---- MODULE Spec2Model ----
(***************************************************************************)
(* A model of the bitlynq web client: the torrent store (TorrentContext),  *)
(* the WebSocket provider (WebSocketContext), the upload controls of the   *)
(* torrent list, cloud-sync and torrent-details pages, and the pull        *)
(* control of the LAN-sync page, together with the backend they talk to    *)
(* (the record store and broadcast hub of spec.md sections 4.1 to 4.6).    *)
(***************************************************************************)
EXTENDS Integers, Sequences, FiniteSets, TLC

\* ------------------------------------------------------------------ bounds

\* At most this many WebSocket messages wait in the socket's inbox.
MaxQueue == 1
\* At most this many HTTP requests of the torrent store are in flight.
MaxInFlight == 1
\* At most this many pause/resume commands are accepted by the backend.
MaxCmds == 1
\* At most this many state changes are reported by the transfer engine.
MaxTicks == 2
\* At most this many WebSocket objects are created by the provider.
MaxSockets == 3
\* At most this many POST /cloud/upload requests are outstanding.
MaxUploads == 2
\* At most this many POST /peer/../pull requests are outstanding.
MaxPulls == 2
\* A torrent is added only while the list holds fewer records than this.
MaxListed == 2
\* The reducer is applied to lists of at most this many records.
MaxRecords == 2
\* With all commands of the client together, at most this many requests are
\* outstanding at a time.
MaxBusy == 1
\* At most this many WebSocket objects are created in a run of reconnects.
MaxChain == 12

\* --------------------------------------------------------------- constants

Hashes == {"h1"}
HashOrder == <<"h1">>
ProgressValues == {0, 100}
FullProgress == 100
Statuses ==
  {"queued", "downloading", "paused", "completed", "seeding", "error", "checking"}

VARIABLES
  torrents,       \* TorrentContext state.torrents: a list of records
  loading,        \* TorrentContext state.loading
  error,          \* TorrentContext state.error ("null" or a message)
  stats,          \* TorrentContext state.stats
  loadIssued,     \* the mount effect of TorrentProvider has run
  http,           \* requests of the store in flight, and their responses
  wsPhase,        \* the store's view of the socket: "idle", "connecting", "open"
  inbox,          \* messages the hub has sent on the socket, not yet handled
  srv,            \* the backend's record store: hash -> record or NoRec
  srvAccepted,    \* number of pause/resume commands the backend has accepted
  ticks,          \* number of state changes the engine has reported
  applied,        \* hash -> the last accepted pause/resume applied to the list
  recheckIssued,  \* hashes for which the client has issued a recheck
  removed,        \* hashes whose removal succeeded and was applied to the list
  mounted,        \* WebSocketProvider: the mount effect has run, not its cleanup
  connected,      \* WebSocketProvider state: connected
  reconnectAttempts, \* WebSocketProvider state: reconnectAttempts
  wsRef,          \* wsRef.current: a socket id, 0 for null
  reconnectTimeoutRef, \* reconnectTimeoutRef.current: a timer id, 0 for null
  sockets,        \* every WebSocket created: id -> its state, closure and timers
  route,          \* the page the router shows
  routeHash,      \* useParams().hash of the torrent-details page, "-" elsewhere
  showUploadModal, \* TorrentList state: "null" or the hash whose modal is open
  uploading,      \* the mounted page's uploading state: hash -> flag
  torrent,        \* TorrentDetails state: NoTorrent for null, or its copy of a record
  uploads,        \* POST /cloud/upload requests outstanding, in the order issued
  exports,        \* backend: the (hash, provider) pairs with a non-terminal export
  peerTorrents,   \* LANSync state: peer id -> the hashes the peer offers
  pullingTorrents, \* LANSync state: pull key -> flag
  pulls,          \* POST /peer/../pull requests outstanding, in the order issued
  magnetLink,     \* AddTorrentModal state: the text of the magnet input
  selectedFile,   \* AddTorrentModal state: the chosen file's name, <<>> for null
  isSubmitting,   \* AddTorrentModal state: isSubmitting
  addReq,         \* the POST /torrent/add request outstanding, or NoAdd
  apiOptions,     \* the options argument of the last APIClient.request call
  apiConfig,      \* the config that call passed to fetch
  settings,       \* SettingsContext state.settings, the keys the validation reads
  settingsLoading, \* SettingsContext state.loading
  settingsError,  \* SettingsContext state.error ("null" or a message)
  dirty,          \* SettingsContext state.dirty
  settingsIssued, \* the mount effect of SettingsProvider has run
  sreqs,          \* requests of the settings API in flight, and their responses
  srvSettings,    \* the backend's stored settings
  edits,          \* the keys set through updateSetting since the last load, and the values set
  accepted,       \* the payloads the backend has accepted
  last            \* the operation that produced the current state

listVars == <<torrents, loading, error>>
netVars == <<http, wsPhase, inbox>>
srvVars == <<srv, srvAccepted, ticks>>
histVars == <<applied, recheckIssued, removed>>

storeVars == <<listVars, loadIssued, netVars, srvVars, histVars>>
connVars == <<mounted, connected, reconnectAttempts, wsRef, reconnectTimeoutRef, sockets>>
navVars == <<route, routeHash>>
uploadVars == <<showUploadModal, uploading, torrent, uploads, exports>>
pullVars == <<peerTorrents, pullingTorrents, pulls>>
pageVars == <<navVars, uploadVars, pullVars>>
addVars == <<magnetLink, selectedFile, isSubmitting, addReq>>
apiVars == <<apiOptions, apiConfig>>
setVars ==
  <<settings, settingsLoading, settingsError, dirty, settingsIssued, sreqs, srvSettings,
    edits, accepted>>

vars == <<storeVars, stats, connVars, pageVars, addVars, apiVars, setVars, last>>

\* ------------------------------------------------------------- records

NoRec == [status |-> "none", progress |-> 0]

Rec(h, s, p) == [hash |-> h, status |-> s, progress |-> p]

NoCmd == [acc |-> 0, status |-> "none"]

\* The indices of the list whose record has hash h.
IndicesOf(ts, h) == {i \in 1..Len(ts) : ts[i].hash = h}

HashesOf(ts) == {ts[i].hash : i \in 1..Len(ts)}

\* getTorrent: the first record with that hash (Array.prototype.find).
GetTorrent(ts, h) ==
  LET is == IndicesOf(ts, h)
  IN ts[CHOOSE i \in is : \A j \in is : i <= j]

\* ------------------------------------------------------------- reducer

\* { ...torrent, ...payload }: the payload's fields win, the others are kept.
Merge(t, p) ==
  [f \in (DOMAIN t) \cup (DOMAIN p) |-> IF f \in DOMAIN p THEN p[f] ELSE t[f]]

\* UPDATE_TORRENT as an upsert: a payload whose hash is not listed is appended.
UpdateTorrentUpsert(ts, p) ==
  IF \E i \in 1..Len(ts) : ts[i].hash = p.hash
  THEN [i \in 1..Len(ts) |-> IF ts[i].hash = p.hash THEN Merge(ts[i], p) ELSE ts[i]]
  ELSE Append(ts, p)

\* UPDATE_TORRENT that puts the payload in the place of the record.
UpdateTorrentReplace(ts, p) ==
  [i \in 1..Len(ts) |-> IF ts[i].hash = p.hash THEN p ELSE ts[i]]

\* UPDATE_TORRENT: map over the list, merging the payload into records of its hash.
UpdateTorrent(ts, p) ==
  [i \in 1..Len(ts) |-> IF ts[i].hash = p.hash THEN Merge(ts[i], p) ELSE ts[i]]

\* REMOVE_TORRENT: filter out the records of that hash.
RemoveTorrent(ts, h) == SelectSeq(ts, LAMBDA t : t.hash # h)

\* updateTorrentsFromWS: one UPDATE_TORRENT per element, in order.
RECURSIVE UpdateTorrentsFromWS(_, _)
UpdateTorrentsFromWS(ts, data) ==
  IF data = <<>> THEN ts
  ELSE UpdateTorrentsFromWS(UpdateTorrent(ts, Head(data)), Tail(data))

\* torrent.field || 0
FieldOr0(t, f) == IF f \in DOMAIN t THEN t[f] ELSE 0

RECURSIVE SumField(_, _)
SumField(ts, f) ==
  IF ts = <<>> THEN 0 ELSE FieldOr0(Head(ts), f) + SumField(Tail(ts), f)

\* calculateStats over a list: the five sums and the count of records that
\* are downloading or seeding.
CalculateStats(ts) ==
  [downloadRate |-> SumField(ts, "download_rate"),
   uploadRate |-> SumField(ts, "upload_rate"),
   totalDownloaded |-> SumField(ts, "downloaded"),
   totalUploaded |-> SumField(ts, "uploaded"),
   totalPeers |-> SumField(ts, "peers"),
   activeTorrents |->
     Cardinality({i \in 1..Len(ts) :
                    "status" \in DOMAIN ts[i] /\ ts[i].status \in {"downloading", "seeding"}})]

\* initialState.torrents: the list of the store's first render, the render
\* whose updateTorrentsFromWS and calculateStats the socket's handlers hold.
InitialTorrents == <<>>

StatusTypes == {"initial_data", "torrent_status_update", "torrent_status"}

\* The event types that only raise a toast and carry the hash they refer to.
NotifyTypes == {"cloud_upload_completed", "peer_pull_completed"}

\* The other event types of handleMessage's switch, and one it does not know.
EventTypes ==
  {"torrent_paused", "cloud_upload_progress", "peer_pull_failed", "error",
   "pong", "unknown"}

\* A handler that takes the torrent data of every message, whatever its type
\* and shape.
HandleAnyMessage(ts, m) == UpdateTorrentsFromWS(ts, m.torrents)

\* The messages for which handleMessage calls updateTorrentsFromWS.
IsStatusBatch(m) ==
  m.form # "not_json" /\ m.type \in StatusTypes /\ m.form # "not_array"

\* onmessage and handleMessage: a payload that is not JSON is caught; only
\* the three status message types reach the store, and only when their
\* torrent data is an array; every other case raises a toast or logs.
HandleMessage(ts, m) ==
  IF m.form # "not_json" /\ m.type \in StatusTypes /\ m.form # "not_array"
  THEN UpdateTorrentsFromWS(ts, m.torrents)
  ELSE ts

\* The hashes a message refers to.
Mentions(m) ==
  IF m.type \in StatusTypes
  THEN {m.torrents[k].hash : k \in 1..Len(m.torrents)}
  ELSE {m.hash}

\* ------------------------------------------------------------- backend

RECURSIVE SnapshotFrom(_, _)
SnapshotFrom(s, order) ==
  IF order = <<>> THEN <<>>
  ELSE LET h == Head(order)
           rest == SnapshotFrom(s, Tail(order))
       IN IF s[h] = NoRec THEN rest
          ELSE <<Rec(h, s[h].status, s[h].progress)>> \o rest

\* The full current snapshot of all records.
Snapshot(s) == SnapshotFrom(s, HashOrder)

\* One reconciliation step of a record: the states the engine may report next.
EngineNext(r) ==
  CASE r.status = "queued" -> {[r EXCEPT !.status = "downloading"]}
    [] r.status = "downloading" ->
         {[r EXCEPT !.progress = p] : p \in {q \in ProgressValues : r.progress < q /\ q < FullProgress}}
           \cup {[status |-> "completed", progress |-> FullProgress]}
           \cup {[r EXCEPT !.status = "error"]}
    [] r.status = "completed" -> {[r EXCEPT !.status = "seeding"]}
    [] r.status = "seeding" -> {[r EXCEPT !.status = "completed"]}
    [] r.status = "checking" -> {[r EXCEPT !.status = "downloading"]}
    [] OTHER -> {}

Event(op, h) == [op |-> op, hash |-> h]

\* A step of the store or the backend: the provider and the pages stay.
StoreFrame(op, h) ==
  last' = Event(op, h) /\ UNCHANGED <<connVars, pageVars, addVars, apiVars, setVars>>

\* A step of the store that dispatches no SET_STATS.
StoreStep(op, h) == StoreFrame(op, h) /\ stats' = stats

\* A step of the WebSocket provider.
ConnStep(op, h) ==
  last' = Event(op, h) /\ UNCHANGED <<storeVars, stats, pageVars, addVars, apiVars, setVars>>

\* A step of a page.
PageStep(op, h) ==
  last' = Event(op, h) /\ UNCHANGED <<storeVars, stats, connVars, addVars, apiVars, setVars>>

\* The reconciliation loop merges the engine's state into a record.
EngineTick(h) ==
  /\ srv[h] # NoRec
  /\ ticks < MaxTicks
  /\ ticks' = ticks + 1
  /\ \E r \in EngineNext(srv[h]) : srv' = [srv EXCEPT ![h] = r]
  /\ StoreStep("engine_tick", h)
  /\ UNCHANGED <<listVars, loadIssued, netVars, srvAccepted, histVars>>

\* A record created on the backend by an accepted add, in queued.
SrvAdd(h) ==
  /\ srv[h] = NoRec
  /\ srv' = [srv EXCEPT ![h] = [status |-> "queued", progress |-> 0]]
  /\ StoreStep("srv_add", h)
  /\ UNCHANGED <<listVars, loadIssued, netVars, srvAccepted, ticks, histVars>>

\* form: "json" for a well-formed message, "not_array" when the torrent data
\* is not an array, "not_json" when the payload does not parse.
StatusMessage(type, s, gen) ==
  [type |-> type, torrents |-> Snapshot(s), hash |-> "-", gen |-> gen, form |-> "json"]

NotifyMessage(type, h, gen) ==
  [type |-> type, torrents |-> <<>>, hash |-> h, gen |-> gen, form |-> "json"]

\* The hub accepts the subscriber and sends initial_data with the full snapshot.
SrvAcceptSubscriber ==
  /\ wsPhase = "connecting"
  /\ wsPhase' = "open"
  /\ inbox' = <<StatusMessage("initial_data", srv, srvAccepted)>>
  /\ StoreStep("ws_open", "-")
  /\ UNCHANGED <<listVars, loadIssued, http, srvVars, histVars>>

\* The hub broadcasts the records' current state.
SrvBroadcast ==
  /\ wsPhase = "open"
  /\ Len(inbox) < MaxQueue
  /\ inbox' = Append(inbox, StatusMessage("torrent_status_update", srv, srvAccepted))
  /\ StoreStep("srv_broadcast", "-")
  /\ UNCHANGED <<listVars, loadIssued, http, wsPhase, srvVars, histVars>>

\* The hub broadcasts an export or pull event of a task that refers to hash h,
\* whether or not the record still exists.
SrvNotify(type, h) ==
  /\ wsPhase = "open"
  /\ Len(inbox) < MaxQueue
  /\ inbox' = Append(inbox, NotifyMessage(type, h, srvAccepted))
  /\ StoreStep("srv_notify", h)
  /\ UNCHANGED <<listVars, loadIssued, http, wsPhase, srvVars, histVars>>

\* A status message arrives malformed: its torrent data is not an array, or
\* the payload is not JSON.
SrvMalformed(type, form) ==
  /\ wsPhase = "open"
  /\ Len(inbox) < MaxQueue
  /\ inbox' = Append(inbox, [StatusMessage(type, srv, srvAccepted) EXCEPT !.form = form])
  /\ StoreStep("srv_malformed", "-")
  /\ UNCHANGED <<listVars, loadIssued, http, wsPhase, srvVars, histVars>>

\* Another client's remove is accepted: the record is deleted and the hub
\* broadcasts torrent_removed.
SrvRemoveElsewhere(h) ==
  /\ srv[h] # NoRec
  /\ wsPhase = "open"
  /\ Len(inbox) < MaxQueue
  /\ srv' = [srv EXCEPT ![h] = NoRec]
  /\ inbox' = Append(inbox, NotifyMessage("torrent_removed", h, srvAccepted))
  /\ StoreStep("srv_remove", h)
  /\ UNCHANGED <<listVars, loadIssued, http, wsPhase, srvAccepted, ticks, histVars>>

\* Another client's add is accepted: the record is created in queued and the
\* hub broadcasts torrent_added.
SrvAddElsewhere(h) ==
  /\ srv[h] = NoRec
  /\ wsPhase = "open"
  /\ Len(inbox) < MaxQueue
  /\ srv' = [srv EXCEPT ![h] = [status |-> "queued", progress |-> 0]]
  /\ inbox' = Append(inbox, NotifyMessage("torrent_added", h, srvAccepted))
  /\ StoreStep("srv_added", h)
  /\ UNCHANGED <<listVars, loadIssued, http, wsPhase, srvAccepted, ticks, histVars>>

Request(op, h) == [op |-> op, hash |-> h, phase |-> "sent", body |-> <<>>, acc |-> 0]

Ok(r, body, acc) == [r EXCEPT !.phase = "ok", !.body = body, !.acc = acc]

Fail(r) == [r EXCEPT !.phase = "fail"]

\* The command serializer: the command's reply and the record store after it.
\* pause and resume are no-ops in their target state, move along
\* downloading <-> paused, and are rejected elsewhere; remove deletes the
\* record; recheck forces checking and re-derives progress.
Accepts(r) ==
  /\ srv[r.hash] # NoRec
  /\ CASE r.op = "pause" -> srv[r.hash].status \in {"downloading", "paused"}
       [] r.op = "resume" -> srv[r.hash].status \in {"paused", "downloading"}
       [] OTHER -> TRUE

SrvAfter(r) ==
  CASE r.op = "pause" -> {[srv EXCEPT ![r.hash].status = "paused"]}
    [] r.op = "resume" -> {[srv EXCEPT ![r.hash].status = "downloading"]}
    [] r.op = "remove" -> {[srv EXCEPT ![r.hash] = NoRec]}
    [] r.op = "recheck" ->
         {[srv EXCEPT ![r.hash] = [status |-> "checking", progress |-> p]] :
            p \in {q \in ProgressValues : q <= srv[r.hash].progress}}
    [] OTHER -> {srv}

\* The backend serves GET /torrent/list with the current snapshot.
SrvList(r) ==
  /\ r.op = "list" /\ r.phase = "sent"
  /\ http' = (http \ {r}) \cup {Ok(r, Snapshot(srv), 0)}
  /\ StoreStep("srv_list", "-")
  /\ UNCHANGED <<listVars, loadIssued, wsPhase, inbox, srvVars, histVars>>

\* The backend accepts a command and mutates the record store.
SrvAccept(r) ==
  /\ r.op # "list" /\ r.phase = "sent"
  /\ Accepts(r)
  /\ \E s \in SrvAfter(r) : srv' = s
  /\ IF r.op \in {"pause", "resume"}
     THEN /\ srvAccepted < MaxCmds
          /\ srvAccepted' = srvAccepted + 1
          /\ http' = (http \ {r}) \cup {Ok(r, <<>>, srvAccepted + 1)}
     ELSE /\ srvAccepted' = srvAccepted
          /\ http' = (http \ {r}) \cup {Ok(r, <<>>, 0)}
  /\ StoreStep("srv_accept", r.hash)
  /\ UNCHANGED <<listVars, loadIssued, wsPhase, inbox, ticks, histVars>>

\* The backend rejects a command (NotFound, InvalidTransition), or the request
\* fails on the way (fetch rejects): no record is mutated.
SrvReject(r) ==
  /\ r.phase = "sent"
  /\ http' = (http \ {r}) \cup {Fail(r)}
  /\ StoreStep("srv_reject", r.hash)
  /\ UNCHANGED <<listVars, loadIssued, wsPhase, inbox, srvVars, histVars>>

\* ------------------------------------------------------------ the store

CanSend(r) == Cardinality(http) < MaxInFlight /\ r \notin http

\* The mount effect: loadTorrents issues GET /torrent/list.
LoadTorrents ==
  /\ ~loadIssued
  /\ loadIssued' = TRUE
  /\ loading' = TRUE
  /\ http' = http \cup {Request("list", "-")}
  /\ StoreStep("load", "-")
  /\ UNCHANGED <<torrents, error, wsPhase, inbox, srvVars, histVars>>

\* loadTorrents, after the await: SET_TORRENTS replaces the list.
LoadTorrentsOk(r) ==
  /\ r.op = "list" /\ r.phase = "ok"
  /\ torrents' = r.body
  /\ loading' = FALSE
  /\ error' = "null"
  /\ http' = http \ {r}
  /\ StoreStep("load_ok", "-")
  /\ UNCHANGED <<loadIssued, wsPhase, inbox, srvVars, histVars>>

\* loadTorrents, the catch: SET_ERROR.
LoadTorrentsFail(r) ==
  /\ r.op = "list" /\ r.phase = "fail"
  /\ error' = "message"
  /\ loading' = FALSE
  /\ http' = http \ {r}
  /\ StoreStep("load_fail", "-")
  /\ UNCHANGED <<torrents, loadIssued, wsPhase, inbox, srvVars, histVars>>

\* handlePauseResume on the record shown at index i: resume a paused record,
\* pause any other.
HandlePauseResume(i) ==
  /\ i \in 1..Len(torrents)
  /\ LET t == torrents[i]
         r == Request(IF t.status = "paused" THEN "resume" ELSE "pause", t.hash)
     IN /\ CanSend(r)
        /\ http' = http \cup {r}
        /\ StoreStep(r.op, t.hash)
  /\ UNCHANGED <<listVars, loadIssued, wsPhase, inbox, srvVars, histVars>>

\* The status a successful command writes into the record.
TargetStatus(op) == IF op = "pause" THEN "paused" ELSE "downloading"

\* What the store does with the list when a pause or resume request resolves.
AfterCommandOk(ts, r) == UpdateTorrent(ts, [hash |-> r.hash, status |-> TargetStatus(r.op)])

\* pauseTorrent / resumeTorrent, after the await: the optimistic UPDATE_TORRENT.
CommandOk(r) ==
  /\ r.op \in {"pause", "resume"} /\ r.phase = "ok"
  /\ torrents' = AfterCommandOk(torrents, r)
  /\ applied' = [applied EXCEPT ![r.hash] = [acc |-> r.acc, status |-> TargetStatus(r.op)]]
  /\ http' = http \ {r}
  /\ StoreStep(r.op \o "_ok", r.hash)
  /\ UNCHANGED <<loading, error, loadIssued, wsPhase, inbox, srvVars,
                 recheckIssued, removed>>

\* A catch block that applies the command's update all the same.
AfterCommandFailApplied(ts, r) ==
  IF r.op = "remove" THEN RemoveTorrent(ts, r.hash)
  ELSE UpdateTorrent(ts, [hash |-> r.hash, status |-> TargetStatus(r.op)])

\* What the store does with the list when a command's request rejects.
AfterCommandFail(ts, r) == ts

\* pauseTorrent / resumeTorrent / removeTorrent / forceRecheck, the catch: a
\* toast, no dispatch, no new request.
CommandFail(r) ==
  /\ r.op \in {"pause", "resume", "remove", "recheck"} /\ r.phase = "fail"
  /\ torrents' = AfterCommandFail(torrents, r)
  /\ http' = http \ {r}
  /\ StoreStep(r.op \o "_fail", r.hash)
  /\ UNCHANGED <<loading, error, loadIssued, wsPhase, inbox, srvVars, histVars>>

\* handleRemove on the record shown at index i.
HandleRemove(i) ==
  /\ i \in 1..Len(torrents)
  /\ LET r == Request("remove", torrents[i].hash)
     IN /\ CanSend(r)
        /\ http' = http \cup {r}
        /\ StoreStep("remove", r.hash)
  /\ UNCHANGED <<listVars, loadIssued, wsPhase, inbox, srvVars, histVars>>

\* removeTorrent, after the await: REMOVE_TORRENT.
RemoveOk(r) ==
  /\ r.op = "remove" /\ r.phase = "ok"
  /\ torrents' = RemoveTorrent(torrents, r.hash)
  /\ removed' = removed \cup {r.hash}
  /\ http' = http \ {r}
  /\ StoreStep("remove_ok", r.hash)
  /\ UNCHANGED <<loading, error, loadIssued, wsPhase, inbox, srvVars,
                 applied, recheckIssued>>

\* forceRecheck of the torrent-details page of a listed record.
ForceRecheck(i) ==
  /\ i \in 1..Len(torrents)
  /\ LET r == Request("recheck", torrents[i].hash)
     IN /\ CanSend(r)
        /\ http' = http \cup {r}
        /\ recheckIssued' = recheckIssued \cup {r.hash}
        /\ StoreStep("recheck", r.hash)
  /\ UNCHANGED <<listVars, loadIssued, wsPhase, inbox, srvVars, applied, removed>>

\* forceRecheck, after the await: a toast.
RecheckOk(r) ==
  /\ r.op = "recheck" /\ r.phase = "ok"
  /\ http' = http \ {r}
  /\ StoreStep("recheck_ok", r.hash)
  /\ UNCHANGED <<listVars, loadIssued, wsPhase, inbox, srvVars, histVars>>

\* The mount effect of WebSocketProvider: connect().
Connect ==
  /\ wsPhase = "idle"
  /\ wsPhase' = "connecting"
  /\ StoreStep("connect", "-")
  /\ UNCHANGED <<listVars, loadIssued, http, inbox, srvVars, histVars>>

\* onmessage: the oldest message of the socket is parsed and handled.  After
\* the dispatches of a batch updateTorrentsFromWS calls calculateStats, which
\* reads the state.torrents of its own render, and dispatches SET_STATS.
OnMessage ==
  /\ inbox # <<>>
  /\ torrents' = HandleMessage(torrents, Head(inbox))
  /\ stats' = IF IsStatusBatch(Head(inbox)) THEN CalculateStats(InitialTorrents) ELSE stats
  /\ inbox' = Tail(inbox)
  /\ StoreFrame(Head(inbox).type,
                   IF Mentions(Head(inbox)) = {} THEN "-"
                   ELSE CHOOSE h \in Mentions(Head(inbox)) : TRUE)
  /\ UNCHANGED <<loading, error, loadIssued, http, wsPhase, srvVars, histVars>>

StoreInit ==
  /\ torrents = <<>>
  /\ stats = CalculateStats(<<>>)
  /\ loading = FALSE
  /\ error = "null"
  /\ loadIssued = FALSE
  /\ http = {}
  /\ wsPhase = "idle"
  /\ inbox = <<>>
  /\ srv \in [Hashes -> {NoRec, [status |-> "queued", progress |-> 0]}]
  /\ srvAccepted = 0
  /\ ticks = 0
  /\ applied = [h \in Hashes |-> NoCmd]
  /\ recheckIssued = {}
  /\ removed = {}

\* The reducer on its own: lists of records over two hashes, duplicates
\* included, and payloads that carry all, some or none of the fields, for a
\* listed or an unlisted hash.
ReducerRecords ==
  {[hash |-> h, status |-> st, progress |-> p, peers |-> n] :
     h \in {"h1", "h2"}, st \in {"downloading", "paused"}, p \in ProgressValues, n \in {0, 1}}

ReducerLists == UNION {[1..n -> ReducerRecords] : n \in 0..MaxRecords}

Payloads ==
  LET hs == {"h1", "h2", "h3"}
  IN {[hash |-> h] : h \in hs}
       \cup {[hash |-> h, status |-> "paused"] : h \in hs}
       \cup {[hash |-> h, progress |-> FullProgress] : h \in hs}
       \cup {[hash |-> h, status |-> "downloading", progress |-> 0, peers |-> 1] : h \in hs}

\* updateTorrentFromWS: one UPDATE_TORRENT dispatched with the payload.
UpdateTorrentFromWS(p) ==
  /\ torrents' = UpdateTorrent(torrents, p)
  /\ StoreStep("update_torrent", p.hash)
  /\ UNCHANGED <<loading, error, loadIssued, netVars, srvVars, histVars>>

ReducerInit ==
  /\ torrents \in ReducerLists
  /\ stats = CalculateStats(<<>>)
  /\ loading = FALSE
  /\ error = "null"
  /\ loadIssued = FALSE
  /\ http = {}
  /\ wsPhase = "idle"
  /\ inbox = <<>>
  /\ srv = [h \in Hashes |-> NoRec]
  /\ srvAccepted = 0
  /\ ticks = 0
  /\ applied = [h \in Hashes |-> NoCmd]
  /\ recheckIssued = {}
  /\ removed = {}

ReducerNext == \E p \in Payloads : UpdateTorrentFromWS(p)

StoreNext ==
  \/ LoadTorrents
  \/ Connect
  \/ SrvAcceptSubscriber
  \/ SrvBroadcast
  \/ OnMessage
  \/ \E type \in NotifyTypes, h \in Hashes : SrvNotify(type, h)
  \/ \E h \in Hashes : EngineTick(h)
  \/ \E h \in Hashes : SrvAdd(h)
  \/ \E r \in http : SrvList(r)
  \/ \E r \in http : SrvAccept(r)
  \/ \E r \in http : SrvReject(r)
  \/ \E r \in http : LoadTorrentsOk(r)
  \/ \E r \in http : LoadTorrentsFail(r)
  \/ \E r \in http : CommandOk(r)
  \/ \E r \in http : CommandFail(r)
  \/ \E r \in http : RemoveOk(r)
  \/ \E r \in http : RecheckOk(r)
  \/ \E i \in 1..Len(torrents) : HandlePauseResume(i)
  \/ \E i \in 1..Len(torrents) : HandleRemove(i)
  \/ \E i \in 1..Len(torrents) : ForceRecheck(i)

\* The store under every kind of message the socket can deliver.
EventsNext ==
  \/ LoadTorrents
  \/ Connect
  \/ SrvAcceptSubscriber
  \/ SrvBroadcast
  \/ OnMessage
  \/ \E type \in EventTypes, h \in Hashes : SrvNotify(type, h)
  \/ \E type \in StatusTypes, form \in {"not_array", "not_json"} : SrvMalformed(type, form)
  \/ \E h \in Hashes : SrvRemoveElsewhere(h)
  \/ \E h \in Hashes : SrvAddElsewhere(h)
  \/ \E h \in Hashes : EngineTick(h)
  \/ \E r \in http : SrvList(r)
  \/ \E r \in http : LoadTorrentsOk(r)

\* ------------------------------------------------- the WebSocket provider

maxReconnectAttempts == 10
AuthFailed == 4001
\* The close codes of a close event: normal, abnormal, authentication failure.
CloseCodes == {1000, 1006, AuthFailed}

SocketIds == 1..MaxSockets

\* st: the readyState, "none" before the object exists; cap: the value of
\* reconnectAttempts in the render whose connect() created the socket, which
\* its handlers close over; timer: the reconnect timer its onclose set; ping:
\* the keep-alive interval its onopen started.
NoSocket == [st |-> "none", cap |-> 0, timer |-> "none", ping |-> FALSE]

Created == {s \in DOMAIN sockets : sockets[s].st # "none"}

\* new WebSocket(wsUrl) assigned to wsRef.current, handlers attached.
NewSocket(cap) ==
  /\ Created # DOMAIN sockets
  /\ LET n == Cardinality(Created) + 1
     IN /\ sockets' = [sockets EXCEPT ![n] = [NoSocket EXCEPT !.st = "connecting", !.cap = cap]]
        /\ wsRef' = n

\* The mount effect: connect() of the first render, whose reconnectAttempts
\* is the initial 0.
Mount ==
  /\ ~mounted
  /\ mounted' = TRUE
  /\ NewSocket(0)
  /\ ConnStep("mount", "-")
  /\ UNCHANGED <<connected, reconnectAttempts, reconnectTimeoutRef>>

\* connect() called through the context value, from the current render.
CallConnect ==
  /\ mounted
  /\ NewSocket(reconnectAttempts)
  /\ ConnStep("call_connect", "-")
  /\ UNCHANGED <<mounted, connected, reconnectAttempts, reconnectTimeoutRef>>

\* onopen of socket s.
OnOpen(s) ==
  /\ sockets[s].st = "connecting"
  /\ sockets' = [sockets EXCEPT ![s].st = "open", ![s].ping = TRUE]
  /\ connected' = TRUE
  /\ reconnectAttempts' = 0
  /\ ConnStep("onopen", "-")
  /\ UNCHANGED <<mounted, wsRef, reconnectTimeoutRef>>

\* onerror of socket s.
OnError(s) ==
  /\ sockets[s].st \in {"connecting", "open"}
  /\ connected' = FALSE
  /\ ConnStep("onerror", "-")
  /\ UNCHANGED <<mounted, reconnectAttempts, wsRef, reconnectTimeoutRef, sockets>>

CloseOp(code) ==
  CASE code = AuthFailed -> "onclose_4001"
    [] code = 1000 -> "onclose_1000"
    [] OTHER -> "onclose_1006"

\* onclose without the early return on the authentication-failure code.
ReconnectsOnAnyCode(code, cap) == cap < maxReconnectAttempts

\* onclose with the comparison of the attempts reversed.
ReconnectsAboveMax(code, cap) == code # AuthFailed /\ cap > maxReconnectAttempts

\* onclose schedules a reconnect unless the close code is the authentication
\* failure, while the attempts its closure holds are below the maximum.
Reconnects(code, cap) == code # AuthFailed /\ cap < maxReconnectAttempts

\* onclose of socket s with the event's close code.
OnClose(s, code) ==
  /\ sockets[s].st \in {"connecting", "open", "closing"}
  /\ connected' = FALSE
  /\ IF Reconnects(code, sockets[s].cap)
     THEN /\ sockets' = [sockets EXCEPT ![s].st = "closed", ![s].timer = "pending"]
          /\ reconnectTimeoutRef' = s
     ELSE /\ sockets' = [sockets EXCEPT ![s].st = "closed"]
          /\ reconnectTimeoutRef' = reconnectTimeoutRef
  /\ ConnStep(CloseOp(code), "-")
  /\ UNCHANGED <<mounted, reconnectAttempts, wsRef>>

\* The reconnect timer set by socket s's onclose fires: the attempt is counted
\* and connect() of the same closure runs.
ReconnectTimer(s) ==
  /\ sockets[s].timer = "pending"
  /\ Created # DOMAIN sockets
  /\ reconnectAttempts' = reconnectAttempts + 1
  /\ LET n == Cardinality(Created) + 1
     IN /\ sockets' = [sockets EXCEPT ![s].timer = "fired",
                         ![n] = [NoSocket EXCEPT !.st = "connecting", !.cap = sockets[s].cap]]
        /\ wsRef' = n
  /\ ConnStep("reconnect_timer", "-")
  /\ UNCHANGED <<mounted, connected, reconnectTimeoutRef>>

\* disconnect(): clearTimeout of the referenced timer, close() of the current
\* socket, setConnected(false).
DisconnectEffect ==
  /\ sockets' =
       [s \in DOMAIN sockets |->
          [sockets[s] EXCEPT
             !.timer = IF s = reconnectTimeoutRef /\ @ = "pending" THEN "cleared" ELSE @,
             !.st = IF s = wsRef /\ @ \in {"connecting", "open"} THEN "closing" ELSE @]]
  /\ connected' = FALSE

\* disconnect() called through the context value.
CallDisconnect ==
  /\ mounted
  /\ DisconnectEffect
  /\ ConnStep("call_disconnect", "-")
  /\ UNCHANGED <<mounted, reconnectAttempts, wsRef, reconnectTimeoutRef>>

\* The cleanup of the mount effect: disconnect().
Unmount ==
  /\ mounted
  /\ mounted' = FALSE
  /\ DisconnectEffect
  /\ ConnStep("unmount", "-")
  /\ UNCHANGED <<reconnectAttempts, wsRef, reconnectTimeoutRef>>

\* A send guard that only looks for a socket object.
ReadyStateAny(s) == s # 0

\* wsRef.current?.readyState === WebSocket.OPEN
ReadyStateOpen(s) == s # 0 /\ sockets[s].st = "open"

\* The keep-alive interval started by socket s's onopen: a ping on the
\* current socket when that is open, else the interval clears itself.  The
\* step's label names the socket send() was called on.
PingInterval(s) ==
  /\ sockets[s].ping
  /\ IF ReadyStateOpen(wsRef)
     THEN /\ sockets' = sockets
          /\ ConnStep("ping_sent", ToString(wsRef))
     ELSE /\ sockets' = [sockets EXCEPT ![s].ping = FALSE]
          /\ ConnStep("ping_cleared", "-")
  /\ UNCHANGED <<mounted, connected, reconnectAttempts, wsRef, reconnectTimeoutRef>>

\* sendMessage(message) called through the context value: the step's label
\* carries the value it returns and the socket send() was called on.
SendMessage ==
  /\ mounted
  /\ IF ReadyStateOpen(wsRef)
     THEN ConnStep("send_true", ToString(wsRef))
     ELSE ConnStep("send_false", "-")
  /\ UNCHANGED connVars

ConnInit ==
  /\ mounted = FALSE
  /\ connected = FALSE
  /\ reconnectAttempts = 0
  /\ wsRef = 0
  /\ reconnectTimeoutRef = 0
  /\ sockets = [s \in SocketIds |-> NoSocket]

\* A run of reconnects: the provider mounts once and up to MaxChain sockets
\* follow one another through open, close and the reconnect timer.
ChainInit ==
  /\ mounted = FALSE
  /\ connected = FALSE
  /\ reconnectAttempts = 0
  /\ wsRef = 0
  /\ reconnectTimeoutRef = 0
  /\ sockets = [s \in 1..MaxChain |-> NoSocket]

ChainNext ==
  \/ Mount
  \/ \E s \in 1..MaxChain : OnOpen(s)
  \/ \E s \in 1..MaxChain, code \in CloseCodes : OnClose(s, code)
  \/ \E s \in 1..MaxChain : ReconnectTimer(s)

\* The connection's life cycle, without the writes to the socket.
ReconnectNext ==
  \/ Mount
  \/ Unmount
  \/ CallConnect
  \/ CallDisconnect
  \/ \E s \in SocketIds : OnOpen(s)
  \/ \E s \in SocketIds : OnError(s)
  \/ \E s \in SocketIds, code \in CloseCodes : OnClose(s, code)
  \/ \E s \in SocketIds : ReconnectTimer(s)

ConnNext ==
  \/ ReconnectNext
  \/ \E s \in SocketIds : PingInterval(s)
  \/ SendMessage

\* ----------------------------------------------------------- the pages

Routes == {"dashboard", "cloud", "lan", "details"}
Providers == {"gdrive", "s3"}
PeerIds == {"p1", "p2"}
\* A peer's torrent may come without a hash.
PeerHashes == Hashes \cup {""}

NoTorrent == [hash |-> "-", status |-> "null", progress |-> 0]
NoFlags == [h \in Hashes |-> FALSE]

\* `${peerId}-${torrentHash}`
PullKey(peerId, torrentHash) == peerId \o "-" \o torrentHash
PullKeys == {PullKey(p, h) : p \in PeerIds, h \in PeerHashes}

Find(ts, h) == IF h \in HashesOf(ts) THEN GetTorrent(ts, h) ELSE NoTorrent

\* The requests in flight when their page is unmounted: the continuation
\* after the await still runs, on the state setters of the unmounted instance.
Orphaned(reqs) == [i \in 1..Len(reqs) |-> [reqs[i] EXCEPT !.live = FALSE]]

\* The router shows another page: the page left is unmounted and its state is
\* gone, the page entered starts from its initial state.  TorrentDetails'
\* effect copies getTorrent(hash) into its state when the record is listed.
Navigate(to, h) ==
  /\ to # route
  /\ route' = to
  /\ routeHash' = IF to = "details" THEN h ELSE "-"
  /\ torrent' = IF to = "details" THEN Find(torrents, h) ELSE NoTorrent
  /\ showUploadModal' = "null"
  /\ uploading' = NoFlags
  /\ peerTorrents' = [p \in PeerIds |-> {}]
  /\ pullingTorrents' = [k \in PullKeys |-> FALSE]
  /\ uploads' = Orphaned(uploads)
  /\ pulls' = Orphaned(pulls)
  /\ PageStep("navigate", "-")
  /\ UNCHANGED exports

\* The interval of TorrentDetails' effect: loadTorrentDetails of the effect's
\* render, whose getTorrent reads the list of that render.
LoadTorrentDetails ==
  /\ route = "details"
  /\ torrent' = torrent
  /\ PageStep("details_poll", routeHash)
  /\ UNCHANGED <<navVars, showUploadModal, uploading, uploads, exports, pullVars>>

UploadRequest(h, provider) ==
  [hash |-> h, provider |-> provider, phase |-> "sent", live |-> TRUE]

\* isReadyForUpload of the torrent list, getCompletedTorrents' filter.
IsReadyForUpload(t) == t.progress >= FullProgress

\* setUploading(true for the hash) and the POST /cloud/upload/{hash}.
StartUpload(h, provider) ==
  /\ Len(uploads) < MaxUploads
  /\ uploading' = [uploading EXCEPT ![h] = TRUE]
  /\ uploads' = Append(uploads, UploadRequest(h, provider))

\* TorrentList: the upload button of a ready row opens the modal.
OpenUploadModal(i) ==
  /\ route = "dashboard"
  /\ i \in 1..Len(torrents)
  /\ IsReadyForUpload(torrents[i])
  /\ ~uploading[torrents[i].hash]
  /\ showUploadModal' = torrents[i].hash
  /\ PageStep("open_modal", torrents[i].hash)
  /\ UNCHANGED <<navVars, uploading, torrent, uploads, exports, pullVars>>

\* TorrentList: the modal's onClose.
CloseUploadModal ==
  /\ route = "dashboard"
  /\ showUploadModal # "null"
  /\ showUploadModal' = "null"
  /\ PageStep("close_modal", showUploadModal)
  /\ UNCHANGED <<navVars, uploading, torrent, uploads, exports, pullVars>>

\* TorrentList: the modal's Start Upload button, shown while the row of the
\* modal's hash is listed: handleUploadToCloud(torrentHash, selectedProvider).
ListUpload(provider) ==
  /\ route = "dashboard"
  /\ showUploadModal \in HashesOf(torrents)
  /\ ~uploading[showUploadModal]
  /\ StartUpload(showUploadModal, provider)
  /\ PageStep("upload_list", showUploadModal)
  /\ UNCHANGED <<navVars, showUploadModal, torrent, exports, pullVars>>

\* CloudSync: the upload button of a completed torrent: handleUpload(hash).
SyncUpload(i, provider) ==
  /\ route = "cloud"
  /\ i \in 1..Len(torrents)
  /\ IsReadyForUpload(torrents[i])
  /\ ~uploading[torrents[i].hash]
  /\ StartUpload(torrents[i].hash, provider)
  /\ PageStep("upload_sync", torrents[i].hash)
  /\ UNCHANGED <<navVars, showUploadModal, torrent, exports, pullVars>>

\* TorrentDetails: the upload button, shown when the page's copy is completed
\* or seeding: handleUploadToCloud('gdrive').
DetailsUpload ==
  /\ route = "details"
  /\ torrent.status \in {"completed", "seeding"}
  /\ ~uploading[torrent.hash]
  /\ StartUpload(torrent.hash, "gdrive")
  /\ PageStep("upload_details", torrent.hash)
  /\ UNCHANGED <<navVars, showUploadModal, torrent, exports, pullVars>>

\* The backend starts an export for a complete torrent with none running for
\* the destination.
SrvUploadAccept(i) ==
  /\ i \in 1..Len(uploads)
  /\ uploads[i].phase = "sent"
  /\ srv[uploads[i].hash] # NoRec
  /\ srv[uploads[i].hash].progress = FullProgress
  /\ <<uploads[i].hash, uploads[i].provider>> \notin exports
  /\ uploads' = [uploads EXCEPT ![i].phase = "ok"]
  /\ exports' = exports \cup {<<uploads[i].hash, uploads[i].provider>>}
  /\ PageStep("srv_upload_accept", uploads[i].hash)
  /\ UNCHANGED <<navVars, showUploadModal, uploading, torrent, pullVars>>

\* The backend refuses the request, or the request fails on the way.
SrvUploadReject(i) ==
  /\ i \in 1..Len(uploads)
  /\ uploads[i].phase = "sent"
  /\ uploads' = [uploads EXCEPT ![i].phase = "fail"]
  /\ PageStep("srv_upload_reject", uploads[i].hash)
  /\ UNCHANGED <<navVars, showUploadModal, uploading, torrent, exports, pullVars>>

\* The export reaches a terminal state.
SrvExportDone(h, provider) ==
  /\ <<h, provider>> \in exports
  /\ exports' = exports \ {<<h, provider>>}
  /\ PageStep("srv_export_done", h)
  /\ UNCHANGED <<navVars, showUploadModal, uploading, torrent, uploads, pullVars>>

RemoveAt(q, i) == SubSeq(q, 1, i - 1) \o SubSeq(q, i + 1, Len(q))

\* The upload handler after its await: on success the torrent list closes
\* its modal; finally the flag of the hash is cleared.  The setters of a page
\* instance that is no longer mounted change nothing.
UploadSettled(i) ==
  /\ i \in 1..Len(uploads)
  /\ uploads[i].phase \in {"ok", "fail"}
  /\ uploads' = RemoveAt(uploads, i)
  /\ IF uploads[i].live
     THEN /\ uploading' = [uploading EXCEPT ![uploads[i].hash] = FALSE]
          /\ showUploadModal' =
               IF route = "dashboard" /\ uploads[i].phase = "ok"
               THEN "null" ELSE showUploadModal
     ELSE UNCHANGED <<uploading, showUploadModal>>
  /\ PageStep("upload_" \o uploads[i].phase, uploads[i].hash)
  /\ UNCHANGED <<navVars, torrent, exports, pullVars>>

\* LANSync: loadPeers stores the torrents a discovered peer offers.
LoadPeers(p, hs) ==
  /\ route = "lan"
  /\ peerTorrents[p] # hs
  /\ peerTorrents' = [peerTorrents EXCEPT ![p] = hs]
  /\ PageStep("load_peers", "-")
  /\ UNCHANGED <<navVars, uploadVars, pullingTorrents, pulls>>

\* The Pull button is disabled while the pair's flag is set, when the torrent
\* is listed already and when it has no hash.
PullDisabled(p, h) ==
  \/ pullingTorrents[PullKey(p, h)]
  \/ h \in HashesOf(torrents)
  \/ h = ""

\* LANSync: handlePullTorrent(peerId, torrentHash) up to its await.
HandlePullTorrent(p, h) ==
  /\ route = "lan"
  /\ h \in peerTorrents[p]
  /\ ~PullDisabled(p, h)
  /\ Len(pulls) < MaxPulls
  /\ pullingTorrents' = [pullingTorrents EXCEPT ![PullKey(p, h)] = TRUE]
  /\ pulls' = Append(pulls, [peerId |-> p, hash |-> h, phase |-> "sent", live |-> TRUE])
  /\ PageStep("pull", h)
  /\ UNCHANGED <<navVars, uploadVars, peerTorrents>>

\* The backend answers the pull request.
SrvPull(i, ok) ==
  /\ i \in 1..Len(pulls)
  /\ pulls[i].phase = "sent"
  /\ pulls' = [pulls EXCEPT ![i].phase = IF ok THEN "ok" ELSE "fail"]
  /\ PageStep("srv_pull", pulls[i].hash)
  /\ UNCHANGED <<navVars, uploadVars, peerTorrents, pullingTorrents>>

\* handlePullTorrent after its await: a toast, finally the pair's flag is
\* cleared.
PullSettled(i) ==
  /\ i \in 1..Len(pulls)
  /\ pulls[i].phase \in {"ok", "fail"}
  /\ pulls' = RemoveAt(pulls, i)
  /\ pullingTorrents' =
       IF pulls[i].live
       THEN [pullingTorrents EXCEPT ![PullKey(pulls[i].peerId, pulls[i].hash)] = FALSE]
       ELSE pullingTorrents
  /\ PageStep("pull_" \o pulls[i].phase, pulls[i].hash)
  /\ UNCHANGED <<navVars, uploadVars, peerTorrents>>

\* ------------------------------------------------------ the add-torrent modal

\* Text is a sequence of characters, so that the modal's checks read it.
HexChars ==
  {"0", "1", "2", "3", "4", "5", "6", "7", "8", "9",
   "a", "b", "c", "d", "e", "f", "A", "B", "C", "D", "E", "F"}
Whitespace == {" "}
MagnetPrefix ==
  <<"m", "a", "g", "n", "e", "t", ":", "?", "x", "t", "=",
    "u", "r", "n", ":", "b", "t", "i", "h", ":">>
\* The {40} of the magnet pattern.
HashLength == 40
TorrentSuffix == <<".", "t", "o", "r", "r", "e", "n", "t">>

Repeat(c, n) == [i \in 1..n |-> c]

\* What the user may type or paste into the magnet input.
MagnetLinks ==
  { <<>>,
    <<" ">>,
    MagnetPrefix \o Repeat("a", HashLength),
    MagnetPrefix \o Repeat("a", HashLength - 1),
    MagnetPrefix \o Repeat("a", HashLength - 1) \o <<"z">>,
    MagnetPrefix \o Repeat("F", HashLength) \o <<"&">>,
    <<" ">> \o MagnetPrefix \o Repeat("a", HashLength),
    <<"M">> \o Tail(MagnetPrefix) \o Repeat("a", HashLength) }

NoFile == <<>>
\* The names of the files the user may choose or drop.
FileNames ==
  { <<"a">> \o TorrentSuffix,
    <<"a", ".", "t", "x", "t">>,
    <<"a">> \o TorrentSuffix \o <<".", "e", "x", "e">> }

\* String.prototype.trim.
RECURSIVE TrimStart(_)
TrimStart(l) ==
  IF l # <<>> /\ Head(l) \in Whitespace THEN TrimStart(Tail(l)) ELSE l

RECURSIVE TrimEnd(_)
TrimEnd(l) ==
  IF l # <<>> /\ l[Len(l)] \in Whitespace
  THEN TrimEnd(SubSeq(l, 1, Len(l) - 1))
  ELSE l

Trim(l) == TrimEnd(TrimStart(l))

\* A mutant of validateMagnetLink: every link passes.
validateAnyLink(link) == TRUE

\* /^magnet:\?xt=urn:btih:[a-fA-F0-9]{40}/.test(link): anchored at the
\* start only.
validateMagnetLink(link) ==
  /\ Len(link) >= Len(MagnetPrefix) + HashLength
  /\ \A i \in 1..Len(MagnetPrefix) : link[i] = MagnetPrefix[i]
  /\ \A i \in 1..HashLength : link[Len(MagnetPrefix) + i] \in HexChars

\* String.prototype.endsWith.
EndsWith(name, suffix) ==
  /\ Len(name) >= Len(suffix)
  /\ SubSeq(name, Len(name) - Len(suffix) + 1, Len(name)) = suffix

NoAdd == [src |-> "none", phase |-> "none", body |-> NoTorrent]
AddRequest(src) == [src |-> src, phase |-> "sent", body |-> NoTorrent]

\* The hash of the torrent a source describes.
SourceHash == CHOOSE h \in Hashes : TRUE

\* A step of the add-torrent modal or of the add command.
AddStep(op, h) ==
  last' = Event(op, h) /\ UNCHANGED <<stats, connVars, pageVars, apiVars, setVars>>

\* The magnet input's onChange.
SetMagnetLink(l) ==
  /\ ~isSubmitting
  /\ magnetLink' = l
  /\ AddStep("magnet_input", "-")
  /\ UNCHANGED <<storeVars, selectedFile, isSubmitting, addReq>>

\* handleFileChange and handleDrop: only a .torrent name is kept.
HandleFileChange(name) ==
  /\ ~isSubmitting
  /\ selectedFile' = IF EndsWith(name, TorrentSuffix) THEN name ELSE selectedFile
  /\ AddStep("file_input", "-")
  /\ UNCHANGED <<storeVars, magnetLink, isSubmitting, addReq>>

\* addTorrent up to its await: SET_LOADING true and POST /torrent/add.
StartAdd(src) ==
  /\ Len(torrents) < MaxListed
  /\ isSubmitting' = TRUE
  /\ loading' = TRUE
  /\ addReq' = AddRequest(src)
  /\ UNCHANGED <<torrents, error, loadIssued, netVars, srvVars, histVars,
                 magnetLink, selectedFile>>

\* handleMagnetSubmit: the submit button is disabled while submitting.
HandleMagnetSubmit ==
  /\ ~isSubmitting
  /\ IF Trim(magnetLink) = <<>> \/ ~validateMagnetLink(magnetLink)
     THEN UNCHANGED <<storeVars, addVars>>
     ELSE StartAdd("magnet")
  /\ AddStep("magnet_submit", "-")

\* handleFileSubmit.
HandleFileSubmit ==
  /\ ~isSubmitting
  /\ IF selectedFile = NoFile \/ ~EndsWith(selectedFile, TorrentSuffix)
     THEN UNCHANGED <<storeVars, addVars>>
     ELSE StartAdd("file")
  /\ AddStep("file_submit", "-")

\* The command serializer accepts the add: a new record in queued, returned
\* in the reply.  An add of a hash the store already tracks is not accepted.
SrvAddAccept ==
  /\ addReq.phase = "sent"
  /\ srv[SourceHash] = NoRec
  /\ srv' = [srv EXCEPT ![SourceHash] = [status |-> "queued", progress |-> 0]]
  /\ addReq' = [addReq EXCEPT !.phase = "ok", !.body = Rec(SourceHash, "queued", 0)]
  /\ AddStep("srv_add_accept", SourceHash)
  /\ UNCHANGED <<listVars, loadIssued, netVars, srvAccepted, ticks, histVars,
                 magnetLink, selectedFile, isSubmitting>>

\* The add fails with InvalidSource, or the request fails on the way.
SrvAddReject ==
  /\ addReq.phase = "sent"
  /\ addReq' = [addReq EXCEPT !.phase = "fail"]
  /\ AddStep("srv_add_reject", "-")
  /\ UNCHANGED <<storeVars, magnetLink, selectedFile, isSubmitting>>

\* addTorrent after its await: ADD_TORRENT appends the payload; then the
\* modal's handleClose resets the form.
AddTorrentOk ==
  /\ addReq.phase = "ok"
  /\ torrents' = Append(torrents, addReq.body)
  /\ error' = "null"
  /\ loading' = FALSE
  /\ isSubmitting' = FALSE
  /\ magnetLink' = <<>>
  /\ selectedFile' = NoFile
  /\ addReq' = NoAdd
  /\ AddStep("add_ok", addReq.body.hash)
  /\ UNCHANGED <<loadIssued, netVars, srvVars, histVars>>

\* addTorrent, the catch: SET_ERROR; the modal keeps its form.
AddTorrentFail ==
  /\ addReq.phase = "fail"
  /\ error' = "message"
  /\ loading' = FALSE
  /\ isSubmitting' = FALSE
  /\ addReq' = NoAdd
  /\ AddStep("add_fail", "-")
  /\ UNCHANGED <<torrents, loadIssued, netVars, srvVars, histVars,
                 magnetLink, selectedFile>>

AddInit ==
  /\ magnetLink = <<>>
  /\ selectedFile = NoFile
  /\ isSubmitting = FALSE
  /\ addReq = NoAdd

AddNext ==
  \/ \E l \in MagnetLinks : SetMagnetLink(l)
  \/ \E name \in FileNames : HandleFileChange(name)
  \/ HandleMagnetSubmit
  \/ HandleFileSubmit
  \/ SrvAddAccept
  \/ SrvAddReject
  \/ AddTorrentOk
  \/ AddTorrentFail

\* The list while torrents are added: the load and the removal of a record.
AddListNext ==
  \/ LoadTorrents
  \/ \E r \in http : SrvList(r)
  \/ \E r \in http : SrvAccept(r)
  \/ \E r \in http : LoadTorrentsOk(r)
  \/ \E r \in http : RemoveOk(r)
  \/ \E i \in 1..Len(torrents) : HandleRemove(i)

PageInit ==
  /\ route = "dashboard"
  /\ routeHash = "-"
  /\ showUploadModal = "null"
  /\ uploading = NoFlags
  /\ torrent = NoTorrent
  /\ uploads = <<>>
  /\ exports = {}
  /\ peerTorrents = [p \in PeerIds |-> {}]
  /\ pullingTorrents = [k \in PullKeys |-> FALSE]
  /\ pulls = <<>>

\* The list as the upload pages see it change: the load, the socket's
\* messages, the engine and a recheck.
ListNext ==
  \/ LoadTorrents
  \/ Connect
  \/ SrvAcceptSubscriber
  \/ SrvBroadcast
  \/ OnMessage
  \/ \E h \in Hashes : EngineTick(h)
  \/ \E r \in http : SrvList(r)
  \/ \E r \in http : SrvAccept(r)
  \/ \E r \in http : LoadTorrentsOk(r)
  \/ \E r \in http : RecheckOk(r)
  \/ \E i \in 1..Len(torrents) : ForceRecheck(i)

UploadNext ==
  \/ \E to \in Routes \ {"lan"}, h \in Hashes : Navigate(to, h)
  \/ LoadTorrentDetails
  \/ \E i \in 1..Len(torrents) : OpenUploadModal(i)
  \/ CloseUploadModal
  \/ \E provider \in Providers : ListUpload(provider)
  \/ \E i \in 1..Len(torrents), provider \in Providers : SyncUpload(i, provider)
  \/ DetailsUpload
  \/ \E i \in 1..Len(uploads) : SrvUploadAccept(i)
  \/ \E i \in 1..Len(uploads) : SrvUploadReject(i)
  \/ \E h \in Hashes, provider \in Providers : SrvExportDone(h, provider)
  \/ \E i \in 1..Len(uploads) : UploadSettled(i)

PullNext ==
  \/ \E to \in {"dashboard", "lan"}, h \in Hashes : Navigate(to, h)
  \/ \E p \in PeerIds, hs \in SUBSET PeerHashes : LoadPeers(p, hs)
  \/ \E p \in PeerIds, h \in PeerHashes : HandlePullTorrent(p, h)
  \/ \E i \in 1..Len(pulls), ok \in BOOLEAN : SrvPull(i, ok)
  \/ \E i \in 1..Len(pulls) : PullSettled(i)

\* ------------------------------------------------------------ settings

SettingKeys ==
  {"use_proxy", "proxy_type", "proxy_host", "proxy_port", "listen_port_min", "listen_port_max"}

\* initialState.settings.
DefaultSettings ==
  [use_proxy |-> FALSE, proxy_type |-> "socks5", proxy_host |-> "127.0.0.1",
   proxy_port |-> 9050, listen_port_min |-> 6881, listen_port_max |-> 6889]

\* The bounds validatePortRanges and validateProxySettings compare with.
MinListenPort == 1024
MinProxyPort == 1
LastPort == 65535

\* Number(e.target.value) of a number input, whose text is a sequence of
\* digits: the empty text gives 0.
RECURSIVE NumberOf(_)
NumberOf(text) ==
  IF text = <<>> THEN 0
  ELSE 10 * NumberOf(SubSeq(text, 1, Len(text) - 1)) + text[Len(text)]

\* validateProxySettings: the messages it pushes.
validateProxySettings(s) ==
  IF s.use_proxy
  THEN (IF s.proxy_host = "" THEN {"Proxy host is required"} ELSE {})
       \cup (IF s.proxy_port = 0 \/ s.proxy_port < MinProxyPort \/ s.proxy_port > LastPort
             THEN {"Proxy port must be between 1 and 65535"} ELSE {})
       \cup (IF s.proxy_type \notin {"socks5", "http"}
             THEN {"Proxy type must be socks5 or http"} ELSE {})
  ELSE {}

\* validatePortRanges without the test of the range.
validatePortOrder(s) ==
  IF s.listen_port_min > s.listen_port_max
  THEN {"Listen port minimum cannot be greater than maximum"} ELSE {}

\* validatePortRanges: the messages it pushes.
validatePortRanges(s) ==
  (IF s.listen_port_min > s.listen_port_max
   THEN {"Listen port minimum cannot be greater than maximum"} ELSE {})
  \cup (IF s.listen_port_min < MinListenPort \/ s.listen_port_max > LastPort
        THEN {"Listen ports must be between 1024 and 65535"} ELSE {})

getValidationErrors(s) == validateProxySettings(s) \cup validatePortRanges(s)

SettingsRequest(kind, body) == [kind |-> kind, body |-> body, phase |-> "sent"]

NoEdits == [keys |-> {}, vals |-> DefaultSettings]

\* A step of the settings provider, its page or the settings API.
SetStep(op, h) ==
  last' = Event(op, h) /\ UNCHANGED <<storeVars, stats, connVars, pageVars, addVars, apiVars>>

\* The settings API answers a request: a read returns the stored settings, a
\* save or an import stores the payload, a reset stores the defaults.
SrvSettingsOk(r) ==
  /\ r.phase = "sent"
  /\ sreqs' = (sreqs \ {r}) \cup
       {[r EXCEPT !.phase = "ok",
                  !.body = IF r.kind \in {"load", "reset_get"} THEN srvSettings ELSE r.body]}
  /\ srvSettings' = CASE r.kind \in {"save", "import"} -> r.body
                      [] r.kind = "reset" -> DefaultSettings
                      [] OTHER -> srvSettings
  /\ accepted' = IF r.kind \in {"save", "import"} THEN accepted \cup {r.body} ELSE accepted
  /\ SetStep("srv_settings_ok", "-")
  /\ UNCHANGED <<settings, settingsLoading, settingsError, dirty, settingsIssued, edits>>

SrvSettingsFail(r) ==
  /\ r.phase = "sent"
  /\ sreqs' = (sreqs \ {r}) \cup {[r EXCEPT !.phase = "fail"]}
  /\ SetStep("srv_settings_fail", "-")
  /\ UNCHANGED <<settings, settingsLoading, settingsError, dirty, settingsIssued,
                 srvSettings, edits, accepted>>

\* SET_SETTINGS: the payload is spread over the settings; loading, error and
\* dirty are reset.
SetSettings(payload) ==
  /\ settings' = Merge(settings, payload)
  /\ settingsLoading' = FALSE
  /\ settingsError' = "null"
  /\ dirty' = FALSE

\* SET_ERROR that leaves loading as it is.
SetErrorOnly ==
  /\ settingsError' = "message"
  /\ UNCHANGED <<settings, dirty, settingsLoading>>

\* SET_ERROR.
SetError ==
  /\ settingsError' = "message"
  /\ settingsLoading' = FALSE
  /\ UNCHANGED <<settings, dirty>>

CanSendSettings == Cardinality(sreqs) < MaxInFlight + 1

\* loadSettings up to its await, run by the mount effect.
LoadSettings ==
  /\ ~settingsIssued
  /\ settingsIssued' = TRUE
  /\ settingsLoading' = TRUE
  /\ sreqs' = sreqs \cup {SettingsRequest("load", DefaultSettings)}
  /\ SetStep("settings_load", "-")
  /\ UNCHANGED <<settings, settingsError, dirty, srvSettings, edits, accepted>>

\* loadSettings and resetSettings after the read of the settings.
LoadSettingsOk(r) ==
  /\ r.kind \in {"load", "reset_get"} /\ r.phase = "ok"
  /\ SetSettings(r.body)
  /\ sreqs' = sreqs \ {r}
  /\ edits' = NoEdits
  /\ SetStep("settings_loaded", "-")
  /\ UNCHANGED <<settingsIssued, srvSettings, accepted>>

\* The catch block of loadSettings, saveSettings, resetSettings and
\* importSettings.
SettingsFail(r) ==
  /\ r.phase = "fail"
  /\ SetError
  /\ sreqs' = sreqs \ {r}
  /\ SetStep(r.kind \o "_fail", "-")
  /\ UNCHANGED <<settingsIssued, srvSettings, edits, accepted>>

\* updateSetting(key, value): UPDATE_SETTING.
UpdateSetting(key, value) ==
  /\ settings' = [settings EXCEPT ![key] = value]
  /\ dirty' = TRUE
  /\ edits' = [keys |-> edits.keys \cup {key}, vals |-> [edits.vals EXCEPT ![key] = value]]
  /\ SetStep("update_setting", key)
  /\ UNCHANGED <<settingsLoading, settingsError, settingsIssued, sreqs, srvSettings, accepted>>

\* handleChange of a number field: updateSetting(key, Number(text)).
HandleChange(key, text) == UpdateSetting(key, NumberOf(text))

\* handleSave: the Save button is enabled when dirty and not loading.  With
\* validation errors it returns; else saveSettings up to its await.
HandleSave ==
  /\ dirty /\ ~settingsLoading
  /\ IF getValidationErrors(settings) # {}
     THEN /\ SetStep("save_invalid", "-")
          /\ UNCHANGED <<settingsLoading, sreqs>>
     ELSE /\ CanSendSettings
          /\ settingsLoading' = TRUE
          /\ sreqs' = sreqs \cup {SettingsRequest("save", settings)}
          /\ SetStep("save", "-")
  /\ UNCHANGED <<settings, settingsError, dirty, settingsIssued, srvSettings, edits, accepted>>

\* saveSettings after its await: SET_SETTINGS with the state.settings of the
\* render that called it, which is the payload it sent.
SaveSettingsOk(r) ==
  /\ r.kind = "save" /\ r.phase = "ok"
  /\ SetSettings(r.body)
  /\ sreqs' = sreqs \ {r}
  /\ SetStep("save_ok", "-")
  /\ UNCHANGED <<settingsIssued, srvSettings, edits, accepted>>

\* handleReset, confirmed: resetSettings up to its first await.
HandleReset ==
  /\ ~settingsLoading
  /\ CanSendSettings
  /\ settingsLoading' = TRUE
  /\ sreqs' = sreqs \cup {SettingsRequest("reset", DefaultSettings)}
  /\ SetStep("reset", "-")
  /\ UNCHANGED <<settings, settingsError, dirty, settingsIssued, srvSettings, edits, accepted>>

\* resetSettings between its awaits: the read of the settings follows.
ResetOk(r) ==
  /\ r.kind = "reset" /\ r.phase = "ok"
  /\ sreqs' = (sreqs \ {r}) \cup {SettingsRequest("reset_get", DefaultSettings)}
  /\ SetStep("reset_ok", "-")
  /\ UNCHANGED <<settings, settingsLoading, settingsError, dirty, settingsIssued,
                 srvSettings, edits, accepted>>

\* The files the import is given: one that holds settings.
ImportFile == [DefaultSettings EXCEPT !.listen_port_max = 7000]

\* importSettings up to the await of validateSettings; a file that is not
\* JSON goes to the catch block.
HandleImportSettings(isJson) ==
  /\ IF isJson
     THEN /\ CanSendSettings
          /\ sreqs' = sreqs \cup {SettingsRequest("validate", ImportFile)}
          /\ SetStep("import_validate", "-")
          /\ UNCHANGED <<settingsLoading, settingsError>>
     ELSE /\ settingsError' = "message"
          /\ settingsLoading' = FALSE
          /\ SetStep("import_not_json", "-")
          /\ UNCHANGED sreqs
  /\ UNCHANGED <<settings, dirty, settingsIssued, srvSettings, edits, accepted>>

\* importSettings after validateSettings: SET_LOADING and the import request.
ValidateOk(r) ==
  /\ r.kind = "validate" /\ r.phase = "ok"
  /\ settingsLoading' = TRUE
  /\ sreqs' = (sreqs \ {r}) \cup {SettingsRequest("import", r.body)}
  /\ SetStep("import", "-")
  /\ UNCHANGED <<settings, settingsError, dirty, settingsIssued, srvSettings, edits, accepted>>

\* importSettings after its last await: SET_SETTINGS with the file's data.
ImportOk(r) ==
  /\ r.kind = "import" /\ r.phase = "ok"
  /\ SetSettings(r.body)
  /\ sreqs' = sreqs \ {r}
  /\ edits' = NoEdits
  /\ SetStep("import_ok", "-")
  /\ UNCHANGED <<settingsIssued, srvSettings, accepted>>

SettingsInit ==
  /\ settings = DefaultSettings
  /\ settingsLoading = FALSE
  /\ settingsError = "null"
  /\ dirty = FALSE
  /\ settingsIssued = FALSE
  /\ sreqs = {}
  /\ srvSettings = DefaultSettings
  /\ edits = NoEdits
  /\ accepted = {}

\* The texts typed into the field of the last listen port.
PortTexts == {<<>>, <<7, 0, 0, 0>>}

SettingsNext ==
  \/ LoadSettings
  \/ \E text \in PortTexts : HandleChange("listen_port_max", text)
  \/ HandleSave
  \/ HandleReset
  \/ \E isJson \in BOOLEAN : HandleImportSettings(isJson)
  \/ \E r \in sreqs : SrvSettingsOk(r)
  \/ \E r \in sreqs : SrvSettingsFail(r)
  \/ \E r \in sreqs : LoadSettingsOk(r)
  \/ \E r \in sreqs : SaveSettingsOk(r)
  \/ \E r \in sreqs : ResetOk(r)
  \/ \E r \in sreqs : ValidateOk(r)
  \/ \E r \in sreqs : ImportOk(r)
  \/ \E r \in sreqs : SettingsFail(r)

\* The settings a user may have entered before pressing Save: every field the
\* validation reads, at and around the limits.
EnteredPorts ==
  {NumberOf(t) : t \in {<<>>, <<1>>, <<1, 0, 2, 3>>, <<1, 0, 2, 4>>,
                        <<6, 5, 5, 3, 5>>, <<6, 5, 5, 3, 6>>}}

EnteredSettings ==
  [use_proxy : BOOLEAN, proxy_type : {"socks5", "http", "socks4"},
   proxy_host : {"", "127.0.0.1"}, proxy_port : EnteredPorts,
   listen_port_min : EnteredPorts, listen_port_max : EnteredPorts]

ValidateInit ==
  /\ settings \in EnteredSettings
  /\ settingsLoading = FALSE
  /\ settingsError = "null"
  /\ dirty = TRUE
  /\ settingsIssued = TRUE
  /\ sreqs = {}
  /\ srvSettings = DefaultSettings
  /\ edits = [keys |-> SettingKeys, vals |-> settings]
  /\ accepted = {}

ValidateNext ==
  \/ HandleSave
  \/ \E r \in sreqs : SrvSettingsOk(r)
  \/ \E r \in sreqs : SrvSettingsFail(r)
  \/ \E r \in sreqs : SaveSettingsOk(r)
  \/ \E r \in sreqs : SettingsFail(r)

\* ------------------------------------------------------- the busy flags

\* The requests outstanding, of every command that sets a busy flag.
Outstanding ==
  Cardinality(http) + Len(uploads) + Len(pulls) + Cardinality(sreqs)
    + (IF addReq = NoAdd THEN 0 ELSE 1)

\* Every command that sets a busy flag, its request, the request's outcome
\* and the continuation after the await: the list's load and the add of a
\* magnet link, the settings' load, save, reset and import, the upload of
\* CloudSync and the pull of LANSync; the engine completes a torrent so that
\* it can be uploaded.
BusyNext ==
  \/ Outstanding < MaxBusy /\ LoadTorrents
  \/ \E r \in http : SrvList(r)
  \/ \E r \in http : SrvReject(r)
  \/ \E r \in http : LoadTorrentsOk(r)
  \/ \E r \in http : LoadTorrentsFail(r)
  \/ \E h \in Hashes : EngineTick(h)
  \/ \E l \in {m \in MagnetLinks : validateMagnetLink(m)} : SetMagnetLink(l)
  \/ Outstanding < MaxBusy /\ HandleMagnetSubmit
  \/ SrvAddAccept
  \/ SrvAddReject
  \/ AddTorrentOk
  \/ AddTorrentFail
  \/ \E to \in {"dashboard", "cloud", "lan"}, h \in Hashes : Navigate(to, h)
  \/ \E i \in 1..Len(torrents) : Outstanding < MaxBusy /\ SyncUpload(i, "gdrive")
  \/ \E i \in 1..Len(uploads) : SrvUploadAccept(i)
  \/ \E i \in 1..Len(uploads) : SrvUploadReject(i)
  \/ \E i \in 1..Len(uploads) : UploadSettled(i)
  \/ LoadPeers("p1", Hashes)
  \/ Outstanding < MaxBusy /\ \E h \in Hashes : HandlePullTorrent("p1", h)
  \/ \E i \in 1..Len(pulls), ok \in BOOLEAN : SrvPull(i, ok)
  \/ \E i \in 1..Len(pulls) : PullSettled(i)
  \/ Outstanding < MaxBusy /\ LoadSettings
  \/ HandleChange("listen_port_max", <<7, 0, 0, 0>>)
  \/ Outstanding < MaxBusy /\ HandleSave
  \/ Outstanding < MaxBusy /\ HandleReset
  \/ Outstanding < MaxBusy /\ HandleImportSettings(TRUE)
  \/ HandleImportSettings(FALSE)
  \/ \E r \in sreqs : SrvSettingsOk(r)
  \/ \E r \in sreqs : SrvSettingsFail(r)
  \/ \E r \in sreqs : LoadSettingsOk(r)
  \/ \E r \in sreqs : SaveSettingsOk(r)
  \/ \E r \in sreqs : ResetOk(r)
  \/ \E r \in sreqs : ValidateOk(r)
  \/ \E r \in sreqs : ImportOk(r)
  \/ \E r \in sreqs : SettingsFail(r)

\* ------------------------------------------------------- the API client

\* A headers object maps a header name to its value, "absent" when the
\* object has no such key.
HeaderNames == {"Content-Type", "Authorization", "X-Request-Id"}

\* The headers object literal of request(), before options.headers is spread.
DefaultHeaders ==
  [n \in HeaderNames |->
     CASE n = "Content-Type" -> "application/json"
       [] n = "Authorization" -> "Bearer API_KEY"
       [] OTHER -> "absent"]

Endpoints == {"/torrent/list", "/torrent/add", "/cloud/upload"}

\* The options a caller passes to get, post, put or delete: with or without a
\* headers object of its own, which names no credentials.
CallerOptions ==
  [hasHeaders : BOOLEAN,
   headers : {hs \in [HeaderNames -> {"absent", "text/plain", "1"}] :
                /\ hs["Authorization"] = "absent"
                /\ hs["Content-Type"] \in {"absent", "text/plain"}
                /\ hs["X-Request-Id"] \in {"absent", "1"}}]

\* get, post, put, delete: { ...options, method, body }.  The body is "form"
\* for FormData, "json" for JSON.stringify(data), "none" without one.
Wrapped(method, data, options) ==
  [hasHeaders |-> options.hasHeaders,
   headers |-> options.headers,
   method |-> method,
   body |-> CASE method = "POST" -> data
              [] method = "PUT" -> "json"
              [] OTHER -> "none"]

NoConfig == [url |-> "-", method |-> "-", body |-> "-", headers |-> [n \in HeaderNames |-> "absent"]]

\* request(): config = { headers: { defaults, ...options.headers },
\* ...options }, then Content-Type is deleted for a FormData body.  The spread
\* of options replaces the headers key when options has one.
RequestConfig(endpoint, options) ==
  LET merged == [n \in HeaderNames |->
                   IF options.hasHeaders /\ options.headers[n] # "absent"
                   THEN options.headers[n]
                   ELSE DefaultHeaders[n]]
      spread == IF options.hasHeaders THEN options.headers ELSE merged
  IN [url |-> endpoint,
      method |-> options.method,
      body |-> options.body,
      headers |-> IF options.body = "form"
                  THEN [spread EXCEPT !["Content-Type"] = "absent"]
                  ELSE spread]

\* A call of client.get, post, put or delete up to its fetch.
ApiCall(method, endpoint, data, options) ==
  /\ method \in {"GET", "DELETE", "PUT"} => data = "json"
  /\ options.hasHeaders \/ options.headers = NoConfig.headers
  /\ apiOptions' = Wrapped(method, data, options)
  /\ apiConfig' = RequestConfig(endpoint, Wrapped(method, data, options))
  /\ last' = Event("fetch", "-")
  /\ UNCHANGED <<storeVars, stats, connVars, pageVars, addVars, setVars>>

ApiInit ==
  /\ apiOptions = Wrapped("-", "json", [hasHeaders |-> FALSE, headers |-> NoConfig.headers])
  /\ apiConfig = NoConfig

NextApi ==
  \E method \in {"GET", "POST", "PUT", "DELETE"}, endpoint \in Endpoints,
     data \in {"json", "form"}, options \in CallerOptions :
    ApiCall(method, endpoint, data, options)

\* --------------------------------------------------------- specifications

Init ==
  /\ StoreInit /\ ConnInit /\ PageInit /\ AddInit /\ ApiInit /\ SettingsInit
  /\ last = Event("init", "-")

\* The torrent store, its requests, the socket's messages and the backend.
Next == StoreNext

Spec == Init /\ [][Next]_vars

\* The WebSocket provider's connection life cycle.
NextConn == ConnNext

SpecConn == Init /\ [][NextConn]_vars

\* The connection's life cycle with every reconnect timer that stays set
\* firing: setTimeout runs its callback unless clearTimeout is called first.
SpecConnLive ==
  /\ Init
  /\ [][ReconnectNext]_vars
  /\ \A s \in SocketIds : WF_vars(ReconnectTimer(s))

\* The pages that start a cloud upload, over a list that changes.
NextUpload == ListNext \/ UploadNext

SpecUpload == Init /\ [][NextUpload]_vars

\* The LAN page and its pull requests.
NextPull == PullNext

SpecPull == Init /\ [][NextPull]_vars

\* The provider through a long run of reconnects.
InitChain ==
  /\ StoreInit /\ ChainInit /\ PageInit /\ AddInit /\ ApiInit /\ SettingsInit
  /\ last = Event("init", "-")

SpecChain == InitChain /\ [][ChainNext]_vars

\* The reducer applied to every list and payload of the bounds.
InitReducer ==
  /\ ReducerInit /\ ConnInit /\ PageInit /\ AddInit /\ ApiInit /\ SettingsInit
  /\ last = Event("init", "-")

SpecReducer == InitReducer /\ [][ReducerNext]_vars

\* Every command that sets a busy flag.
SpecBusy == Init /\ [][BusyNext]_vars

\* The settings provider and its page.
SpecSettings == Init /\ [][SettingsNext]_vars

\* handleSave applied to every entered combination of the validated fields.
InitValidate ==
  /\ StoreInit /\ ConnInit /\ PageInit /\ AddInit /\ ApiInit /\ ValidateInit
  /\ last = Event("init", "-")

SpecValidate == InitValidate /\ [][ValidateNext]_vars

\* The store and every kind of message of the socket.
NextEvents == EventsNext

SpecEvents == Init /\ [][NextEvents]_vars

\* The same, with the client's handlers running whenever they can and the
\* hub's periodic broadcast recurring; adds and removes by other clients are
\* free.
SpecEventsLive ==
  /\ SpecEvents
  /\ WF_vars(OnMessage)
  /\ SF_vars(SrvBroadcast)
  /\ WF_vars(LoadTorrents)
  /\ WF_vars(\E r \in http : SrvList(r))
  /\ WF_vars(\E r \in http : LoadTorrentsOk(r))

\* The add-torrent modal and the add command, over a list that changes.
NextAdd == AddListNext \/ AddNext

SpecAdd == Init /\ [][NextAdd]_vars

\* The API client's requests.
SpecApi == Init /\ [][NextApi]_vars

\* ------------------------------------------------------------------ claims

OnMessageStep == last'.op \in StatusTypes \cup NotifyTypes /\ inbox # <<>>

\* C1: once an accepted pause or resume has set a record's status, no
\* torrent_status_update generated before the backend accepted that command
\* changes it.
C1_NoStaleOverwrite ==
  [][(OnMessageStep /\ Head(inbox).type = "torrent_status_update") =>
       \A h \in Hashes : \A i \in IndicesOf(torrents, h) :
         (applied[h].acc > Head(inbox).gen /\ torrents[i].status = applied[h].status)
           => torrents'[i].status = torrents[i].status]_vars

\* C2: after an initial_data message is handled, the list holds every record
\* of its snapshot, with the snapshot's field values.
C2_InitialDataSnapshot ==
  [][(OnMessageStep /\ Head(inbox).type = "initial_data") =>
       \A k \in 1..Len(Head(inbox).torrents) :
         \E i \in 1..Len(torrents') : torrents'[i] = Head(inbox).torrents[k]]_vars

\* C3: handling a close with the authentication-failure code schedules no
\* reconnect timer and creates no socket.
C3_NoRetryOnAuthFailure ==
  [][last'.op = "onclose_4001" =>
       /\ \A s \in SocketIds : sockets'[s].timer = sockets[s].timer
       /\ reconnectTimeoutRef' = reconnectTimeoutRef
       /\ Created' = Created
       /\ wsRef' = wsRef]_vars

\* A reconnect attempt has been rejected with the authentication-failure code.
C3_Witness ==
  /\ last.op = "onclose_4001"
  /\ reconnectAttempts > 0
  /\ \E s \in SocketIds : sockets[s].st = "closed" /\ sockets[s].timer = "none"

\* C4: a listed record's progress never decreases from one state to the next
\* unless a recheck was issued for its hash.
C4_ProgressMonotone ==
  [][\A h \in HashesOf(torrents) \cap HashesOf(torrents') :
       h \notin recheckIssued'
         => GetTorrent(torrents', h).progress >= GetTorrent(torrents, h).progress]_vars

Edges ==
  {<<"queued", "downloading">>, <<"downloading", "completed">>,
   <<"downloading", "error">>, <<"downloading", "paused">>,
   <<"paused", "downloading">>, <<"completed", "seeding">>,
   <<"seeding", "completed">>, <<"error", "checking">>,
   <<"checking", "downloading">>}

\* A step that issues a POST /cloud/upload request: the request is the last
\* of uploads'.
UploadIssued == Len(uploads') > Len(uploads)

\* C6: a cloud-upload request is issued for a (hash, provider) pair only when
\* no export of the pair is non-terminal and no other request for the pair
\* is outstanding.
C6_ExportSingleFlight ==
  [][UploadIssued =>
       LET new == uploads'[Len(uploads')]
       IN /\ <<new.hash, new.provider>> \notin exports
          /\ \A i \in 1..Len(uploads) :
               ~(uploads[i].hash = new.hash /\ uploads[i].provider = new.provider)]_vars

PullsOf(p, h) == {i \in 1..Len(pulls) : pulls[i].peerId = p /\ pulls[i].hash = h}

\* C7: at most one pull request is outstanding for a (peer, hash) pair, and
\* on the LAN page the pair's flag is set exactly while one is outstanding.
C7_SinglePull ==
  \A p \in PeerIds, h \in PeerHashes :
    /\ Cardinality(PullsOf(p, h)) <= 1
    /\ route = "lan" => (pullingTorrents[PullKey(p, h)] <=> PullsOf(p, h) # {})

\* C8: a cloud-upload request is issued only for a torrent whose progress in
\* the list is 100.
C8_UploadOnlyWhenComplete ==
  [][UploadIssued =>
       LET new == uploads'[Len(uploads')]
       IN /\ new.hash \in HashesOf(torrents)
          /\ GetTorrent(torrents, new.hash).progress = FullProgress]_vars

\* C9: every change of a listed record's status made by the client's own
\* update after a successful pause or resume is an edge of the state machine.
C9_StatusEdges ==
  [][last'.op \in {"pause_ok", "resume_ok"} =>
       \A h \in HashesOf(torrents) \cap HashesOf(torrents') :
         LET a == GetTorrent(torrents, h).status
             b == GetTorrent(torrents', h).status
         IN a = b \/ <<a, b>> \in Edges]_vars

\* C10: handling a failed pause, resume or remove leaves the list as it was
\* and sends no request.
C10_FailureLeavesList ==
  [][last'.op \in {"pause_fail", "resume_fail", "remove_fail"} =>
       /\ torrents' = torrents
       /\ {q \in http' : q.phase = "sent"} \subseteq http]_vars

\* A failed command on a listed record has been handled.
C10_Witness ==
  /\ last.op \in {"pause_fail", "resume_fail", "remove_fail"}
  /\ last.hash \in HashesOf(torrents)

\* C11: the list never holds two records with the same hash.
C11_UniqueHashes ==
  \A i, j \in 1..Len(torrents) : torrents[i].hash = torrents[j].hash => i = j

\* C17: send() is called only on the current socket and only while its
\* readyState is OPEN; sendMessage returns true exactly when it sent; a ping
\* timer that finds the current socket not open sends nothing and clears
\* itself.
C17_WritesOnlyWhenOpen ==
  [][LET open == wsRef # 0 /\ sockets[wsRef].st = "open"
         Pings == {s \in SocketIds : sockets[s].ping}
     IN /\ last'.op \in {"send_true", "ping_sent"}
           => open /\ last'.hash = ToString(wsRef)
        /\ last'.op = "send_false" => ~open
        /\ last'.op = "ping_cleared"
           => ~open /\ \E s \in Pings : ~sockets'[s].ping]_vars

\* sendMessage has returned false on a socket that is still connecting,
\* while the ping interval of an earlier socket is running.
C17_Witness ==
  /\ last.op = "send_false"
  /\ wsRef # 0
  /\ sockets[wsRef].st = "connecting"
  /\ \E s \in SocketIds : sockets[s].ping

\* C19: whenever the connected flag is true, the current socket
\* (wsRef.current) is open.
C19_LiveOnlyWhileOpen ==
  connected => wsRef # 0 /\ sockets[wsRef].st = "open"

\* The safety half of C12: a close with a code other than 4001, while the
\* provider is mounted and fewer than 10 attempts are counted, sets the
\* reconnect timer of the socket that closed; onopen resets the counter.
CloseSetsTimer ==
  [][/\ (/\ last'.op \in {"onclose_1000", "onclose_1006"}
         /\ mounted
         /\ reconnectAttempts < maxReconnectAttempts)
        => \E s \in SocketIds :
             /\ sockets[s].st # "closed" /\ sockets'[s].st = "closed"
             /\ sockets'[s].timer = "pending"
     /\ last'.op = "onopen" => reconnectAttempts' = 0]_vars

C13_RemovedEventDropsRecord ==
  [][(inbox # <<>> /\ inbox' = Tail(inbox) /\ Head(inbox).type = "torrent_removed")
       => Head(inbox).hash \notin HashesOf(torrents')]_vars

\* C14: a record announced by a torrent_added event that is not in the list
\* when the event is handled is in the list later on, for as long as the
\* backend keeps it.
C14_AddedEventuallyListed ==
  \A h \in Hashes :
    (last = Event("torrent_added", h) /\ h \notin HashesOf(torrents))
      ~> (h \in HashesOf(torrents) \/ srv[h] = NoRec)

C18_AlwaysAuthorized ==
  apiConfig # NoConfig => apiConfig.headers["Authorization"] = DefaultHeaders["Authorization"]

\* C20: a poll of the mounted torrent-details view reads the current record
\* of its hash from the store: after the poll the view's copy is the record
\* the list holds.
C20_PollReadsCurrentRecord ==
  [][(last'.op = "details_poll" /\ routeHash \in HashesOf(torrents))
       => torrent' = GetTorrent(torrents, routeHash)]_vars

\* C16: a submit of a malformed source (an empty magnet link, a link that does
\* not start with magnet:?xt=urn:btih: and 40 hexadecimal characters, no file,
\* a file whose name does not end in .torrent) issues no add request and
\* leaves the list and the submitting flag as they were; a successful add
\* appends exactly the record the server returned.
C16_MalformedSourceRejected ==
  [][LET Rejected == /\ addReq' = addReq
                     /\ torrents' = torrents
                     /\ isSubmitting' = isSubmitting
         n == Len(MagnetPrefix)
         StartsWithMagnet ==
           /\ Len(magnetLink) >= n + HashLength
           /\ SubSeq(magnetLink, 1, n) = MagnetPrefix
           /\ \A i \in (n + 1)..(n + HashLength) : magnetLink[i] \in HexChars
         k == Len(selectedFile) - Len(TorrentSuffix)
         TorrentFile ==
           /\ k >= 0
           /\ \A i \in 1..Len(TorrentSuffix) : selectedFile[k + i] = TorrentSuffix[i]
     IN /\ last'.op = "magnet_submit" /\ (magnetLink = <<>> \/ ~StartsWithMagnet)
           => Rejected
        /\ last'.op = "file_submit" /\ (selectedFile = NoFile \/ ~TorrentFile)
           => Rejected
        /\ last'.op = "file_input" => Rejected
        /\ last'.op = "add_ok" => torrents' = Append(torrents, addReq.body)]_vars

\* A link one character short of 40 was submitted and nothing was sent.
C16_Witness ==
  /\ last.op = "magnet_submit"
  /\ magnetLink = MagnetPrefix \o Repeat("a", HashLength - 1)
  /\ addReq = NoAdd
  /\ ~isSubmitting

\* C21: the reconnect attempts made since the last successful open never
\* exceed maxReconnectAttempts.
C21_AttemptsBounded ==
  reconnectAttempts <= maxReconnectAttempts

\* C22: after disconnect() ran as the cleanup of the provider, and until the
\* provider mounts again and calls connect(), no reconnect timer is pending
\* and no new WebSocket is created.
C22_QuietAfterDisconnect ==
  [][~mounted' =>
       /\ \A s \in SocketIds : sockets'[s].timer # "pending"
       /\ ~mounted => Created' = Created]_vars

\* C23: at most one WebSocket is connecting or open at any time.
C23_SingleSocket ==
  Cardinality({s \in SocketIds : sockets[s].st \in {"connecting", "open"}}) <= 1

\* C26: every keep-alive ping is sent by the interval of the current socket,
\* and no other interval is active when it is sent.
C26_OnePingTimer ==
  [][\A s \in SocketIds :
       (PingInterval(s) /\ last'.op = "ping_sent") => s = wsRef]_vars

\* C25: after a batch of a status message has been processed, the stored
\* stats equal the aggregates over the list as that batch left it.
C25_StatsMatchList ==
  [][(last'.op \in StatusTypes /\ inbox # <<>> /\ IsStatusBatch(Head(inbox)))
       => stats' = CalculateStats(torrents')]_vars

\* C29: UPDATE_TORRENT keeps the number and order of the records and every
\* hash, leaves records of another hash as they are, keeps every field the
\* payload does not carry, and changes nothing for an unlisted hash.
C29_UpdateFrame ==
  \A p \in Payloads :
    LET out == UpdateTorrent(torrents, p)
    IN /\ Len(out) = Len(torrents)
       /\ \A i \in 1..Len(torrents) :
            /\ out[i].hash = torrents[i].hash
            /\ torrents[i].hash # p.hash => out[i] = torrents[i]
            /\ \A f \in DOMAIN torrents[i] \ DOMAIN p :
                 f \in DOMAIN out[i] /\ out[i][f] = torrents[i][f]
            /\ \A f \in DOMAIN p :
                 torrents[i].hash = p.hash => f \in DOMAIN out[i] /\ out[i][f] = p[f]
       /\ (\A i \in 1..Len(torrents) : torrents[i].hash # p.hash) => out = torrents

\* A partial payload for h1 has been merged into a list that also holds h2:
\* h1 took the payload's status and kept its progress and peers.
C29_Witness ==
  /\ last = Event("update_torrent", "h1")
  /\ Len(torrents) = 2
  /\ torrents[1] = [hash |-> "h1", status |-> "paused", progress |-> FullProgress, peers |-> 1]
  /\ torrents[2].hash = "h2"

\* C24: whenever dirty is false, every value set through updateSetting since
\* the last load is in the local settings and in a payload the backend
\* accepted; a failed save leaves dirty and the values as they were.
C24_NoEditLost ==
  [][/\ ~dirty' =>
          \A k \in edits'.keys :
            /\ settings'[k] = edits'.vals[k]
            /\ \E a \in accepted' : a[k] = edits'.vals[k]
     /\ last'.op = "save_fail" => dirty' = dirty /\ settings' = settings]_vars

\* C27: every save request carries settings without validation errors, and
\* settings without validation errors have 1024 <= listen_port_min <=
\* listen_port_max <= 65535 and, with use_proxy, a non-empty proxy_host, a
\* proxy_port in 1..65535 and a proxy_type of socks5 or http.
C27_SavedSettingsValid ==
  /\ \A r \in sreqs : r.kind = "save" => getValidationErrors(r.body) = {}
  /\ getValidationErrors(settings) = {} =>
       /\ MinListenPort <= settings.listen_port_min
       /\ settings.listen_port_min <= settings.listen_port_max
       /\ settings.listen_port_max <= LastPort
       /\ settings.use_proxy =>
            /\ settings.proxy_host # ""
            /\ MinProxyPort <= settings.proxy_port /\ settings.proxy_port <= LastPort
            /\ settings.proxy_type \in {"socks5", "http"}

\* A save has been sent with the proxy in use and the listen ports at the two
\* ends of the range.
C27_Witness ==
  \E r \in sreqs :
    /\ r.kind = "save" /\ r.phase = "sent"
    /\ r.body.use_proxy
    /\ r.body.listen_port_min = MinListenPort
    /\ r.body.listen_port_max = LastPort

\* C28: no busy flag is set without an outstanding request of a command that
\* sets it: the store's loading, the settings' loading, uploading[hash], the
\* pulling flag of a (peer, hash) pair and the add dialog's submitting flag.
C28_FlagsFollowRequests ==
  /\ loading => (\E r \in http : r.op = "list") \/ addReq # NoAdd
  /\ settingsLoading => \E r \in sreqs : r.kind # "validate"
  /\ \A h \in Hashes :
       uploading[h] => \E i \in 1..Len(uploads) : uploads[i].hash = h /\ uploads[i].live
  /\ \A k \in PullKeys :
       pullingTorrents[k] =>
         \E i \in 1..Len(pulls) :
           pulls[i].live /\ PullKey(pulls[i].peerId, pulls[i].hash) = k
  /\ isSubmitting => addReq # NoAdd

\* A save of the settings has failed and nothing else is outstanding: the
\* loading flag it set is clear again.
C28_Witness ==
  /\ last = Event("save_fail", "-")
  /\ sreqs = {}
  /\ ~settingsLoading

====
